---- MODULE Spec2Model ----
(***************************************************************************)
(* Model of the bezier-editor timeline: the anchor store of createTimeline *)
(* (addAnchor, deleteAnchor, setAnchors), the derived absolute anchors,    *)
(* the value sampler, and the drag handlers of the Timeline component.     *)
(*                                                                         *)
(* The repository holds three revisions of create-timeline.tsx:            *)
(*   "p0"  src/unnamed/part_000   (addAnchor prepends and appends,         *)
(*                                 padding margin of 100)                  *)
(*   "p1"  src/unnamed/part_001   (addAnchor never appends)                *)
(*   "ct"  src/src/create-timeline.tsx (addAnchor never appends, handlers  *)
(*                                 onAnchorChange / onPositionChange)      *)
(* The variable `variant` fixes the revision a behaviour runs.             *)
(*                                                                         *)
(* Numbers are JavaScript doubles in the source.  They are modelled as     *)
(* exact rationals [n, d] in lowest terms, d = 0 standing for the values   *)
(* that are not finite: [0,0] is NaN, [1,0] is Infinity, [-1,0] is         *)
(* -Infinity.  Indices are 0-based as in the source; the anchors are a     *)
(* TLA+ sequence, so anchor `index` is anchors[index + 1].                 *)
(***************************************************************************)
EXTENDS Integers, Sequences, FiniteSets, TLC

(***************************************************************************)
(* Bounds of the model.                                                    *)
(***************************************************************************)
\* the store holds at most MaxLen anchors (addAnchor is not offered beyond)
MaxLen == 3
\* coordinates written to the store stay within 0 .. MaxCoord (x) and
\* -MaxCoord .. MaxCoord (y)
MaxCoord == 2
\* number of parametric steps of a segment's lookup map
SampleCount == 2
\* a behaviour makes at most MaxOps calls and gestures (addAnchor,
\* deleteAnchor, pointer-down), at most MaxSessions pointer sessions are in
\* progress together, and the sessions in progress and the delta events they
\* have received number at most MaxMoves + 1 together
MaxOps == 2
MaxSessions == 2
MaxMoves == 1

(***************************************************************************)
(* Numbers                                                                 *)
(***************************************************************************)
Sign(i) == IF i > 0 THEN 1 ELSE IF i < 0 THEN -1 ELSE 0

AbsInt(i) == IF i < 0 THEN -i ELSE i

RECURSIVE GCD(_, _)
GCD(a, b) == IF b = 0 THEN a ELSE GCD(b, a % b)

\* the number n/d in lowest terms
Norm(n, d) ==
    IF d = 0 THEN [n |-> Sign(n), d |-> 0]
    ELSE LET g == GCD(AbsInt(n), AbsInt(d))
         IN  [n |-> (Sign(d) * n) \div g, d |-> AbsInt(d) \div g]

Num(i) == [n |-> i, d |-> 1]

Frac(i, j) == Norm(i, j)

NaN == [n |-> 0, d |-> 0]

IsNaN(a) == a.d = 0 /\ a.n = 0

IsFinite(a) == a.d # 0

Neg(a) == [n |-> -a.n, d |-> a.d]

Add(a, b) ==
    IF a.d = 0 /\ b.d = 0
    THEN (IF a.n = b.n THEN a ELSE NaN)
    ELSE Norm(a.n * b.d + b.n * a.d, a.d * b.d)

Sub(a, b) == Add(a, Neg(b))

Mul(a, b) == Norm(a.n * b.n, a.d * b.d)

\* 1/b: 1/0 is Infinity, 1/Infinity is 0
Inv(b) ==
    IF b.d = 0 THEN (IF b.n = 0 THEN NaN ELSE Num(0))
    ELSE IF b.n = 0 THEN [n |-> 1, d |-> 0]
    ELSE Norm(b.d, b.n)

Div(a, b) == Mul(a, Inv(b))

\* a < b as JavaScript compares: false when either is NaN
Lt(a, b) ==
    IF IsNaN(a) \/ IsNaN(b) THEN FALSE
    ELSE IF a.d = 0 \/ b.d = 0
         THEN (IF a.d = 0 /\ b.d = 0 THEN a.n < b.n
               ELSE IF a.d = 0 THEN a.n < 0 ELSE b.n > 0)
    ELSE a.n * b.d < b.n * a.d

Gt(a, b) == Lt(b, a)

Le(a, b) == ~IsNaN(a) /\ ~IsNaN(b) /\ ~Lt(b, a)

\* Math.max, Math.min, Math.abs, Math.floor
MathMax(a, b) == IF IsNaN(a) \/ IsNaN(b) THEN NaN ELSE IF Lt(a, b) THEN b ELSE a

MathMin(a, b) == IF IsNaN(a) \/ IsNaN(b) THEN NaN ELSE IF Lt(b, a) THEN b ELSE a

MathAbs(a) == [n |-> AbsInt(a.n), d |-> a.d]

MathFloor(a) == IF a.d = 0 THEN a ELSE Num(a.n \div a.d)

\* JavaScript truthiness of a number: 0 and NaN are falsy
Truthy(a) == ~IsNaN(a) /\ a.n # 0

(***************************************************************************)
(* Vectors (lib/vector) and optional values                                *)
(***************************************************************************)
Vec(x, y) == [x |-> x, y |-> y]

addVector(a, b) == Vec(Add(a.x, b.x), Add(a.y, b.y))

subtractVector(a, b) == Vec(Sub(a.x, b.x), Sub(a.y, b.y))

\* an optional value is a sequence of length 0 (undefined) or 1
None == << >>

Some(v) == << v >>

Has(o) == Len(o) = 1

Get(o) == o[1]

(***************************************************************************)
(* The anchor store.  An anchor [position, controls?] of the source is the *)
(* record [position, pre, post] with pre and post optional relative        *)
(* controls.                                                               *)
(***************************************************************************)
Anchor(position, pre, post) == [position |-> position, pre |-> pre, post |-> post]

\* the default control { x: 0.5, y: 0 }
DefaultControl == Vec(Frac(1, 2), Num(0))

\* anchors[index] for a 0-based index inside the array
At(s, index) == s[index + 1]

InRange(s, index) == 0 <= index /\ index < Len(s)

\* Array.prototype.findIndex(([anchor]) => anchor.x > time); -1 when none
FindIndex(s, time) ==
    LET hits == {i \in 0 .. Len(s) - 1 : Gt(At(s, i).position.x, time)}
    IN  IF hits = {} THEN -1
        ELSE CHOOSE i \in hits : \A j \in hits : i <= j

\* Array.prototype.splice(index, 0, item)
SpliceIn(s, index, item) ==
    SubSeq(s, 1, index) \o << item >> \o SubSeq(s, index + 1, Len(s))

\* Array.prototype.splice(index, 1): a negative index counts from the end,
\* an index beyond the end removes nothing
SpliceOut(s, index) ==
    LET start == IF index < 0
                 THEN (IF Len(s) + index < 0 THEN 0 ELSE Len(s) + index)
                 ELSE (IF index > Len(s) THEN Len(s) ELSE index)
    IN  SubSeq(s, 1, start) \o SubSeq(s, start + 2, Len(s))

\* the store is what the data model asks for: times strictly increase,
\* pre only with a previous neighbour, post only with a next neighbour
StrictlyIncreasing(s) ==
    \A i \in 1 .. Len(s) - 1 : Lt(s[i].position.x, s[i + 1].position.x)

\* absoluteAnchors reads anchors[index - 1][0] for a pre control and
\* anchors[index + 1][0] for a post control: a TypeError when that neighbour
\* is not in the array
DerivationTotal(s) ==
    \A i \in 1 .. Len(s) :
        /\ Has(s[i].pre) => i > 1
        /\ Has(s[i].post) => i < Len(s)

\* a variant of the derivation that lays the pre handle on the side of the
\* next anchor: the factor -1 of the pre control's x is left out
absoluteAnchorUnmirrored(s, i) ==
    LET point == s[i].position
        pre == IF Has(s[i].pre)
               THEN Some(addVector(point,
                        Vec(Mul(Sub(point.x, s[i - 1].position.x), Get(s[i].pre).x),
                            Get(s[i].pre).y)))
               ELSE None
        post == IF Has(s[i].post)
                THEN Some(addVector(point,
                         Vec(Mul(Sub(s[i + 1].position.x, point.x), Get(s[i].post).x),
                             Get(s[i].post).y)))
                ELSE None
    IN  Anchor(point, pre, post)

\* one element of absoluteAnchors: the position and the absolute controls
absoluteAnchor(s, i) ==
    LET point == s[i].position
        pre == IF Has(s[i].pre)
               THEN LET prev == s[i - 1].position
                        deltaX == Sub(point.x, prev.x)
                    IN  Some(addVector(point,
                            Vec(Mul(Mul(deltaX, Get(s[i].pre).x), Num(-1)),
                                Get(s[i].pre).y)))
               ELSE None
        post == IF Has(s[i].post)
                THEN LET next == s[i + 1].position
                         deltaX == Sub(next.x, point.x)
                     IN  Some(addVector(point,
                             Vec(Mul(deltaX, Get(s[i].post).x),
                                 Get(s[i].post).y)))
                ELSE None
    IN  Anchor(point, pre, post)

\* absoluteAnchors(), read in a store on which the derivation is total
absoluteAnchors(s) == [i \in 1 .. Len(s) |-> absoluteAnchor(s, i)]

(***************************************************************************)
(* Segments and the value sampler.  lookupMapSegments is in the source;    *)
(* createLookupMap and getValueFromSegments (lib/) are modelled from the   *)
(* specification: a segment samples its cubic Bezier at SampleCount        *)
(* parametric steps and a query interpolates linearly between the two      *)
(* bracketing samples; an absent handle is the anchor's own position; a    *)
(* time no segment contains has no value (undefined, NaN as a number).     *)
(***************************************************************************)
\* lookupMapSegments().slice(0, -1): one segment per consecutive pair
lookupMapSegments(s) ==
    LET abs == absoluteAnchors(s)
    IN  [i \in 1 .. Len(s) - 1 |->
            [range |-> << abs[i].position.x, abs[i + 1].position.x >>,
             from |-> abs[i], to |-> abs[i + 1]]]

\* the cubic Bezier through p0 p1 p2 p3 at parameter k / SampleCount
Cubic(k, p0, p1, p2, p3) ==
    LET t == Frac(k, SampleCount)
        u == Sub(Num(1), t)
    IN  Add(Add(Mul(Mul(u, Mul(u, u)), p0),
                Mul(Mul(Num(3), Mul(Mul(u, u), t)), p1)),
            Add(Mul(Mul(Num(3), Mul(u, Mul(t, t))), p2),
                Mul(Mul(t, Mul(t, t)), p3)))

\* sample k of createLookupMap(from, to)
Sample(seg, k) ==
    LET p0 == seg.from.position
        p3 == seg.to.position
        p1 == IF Has(seg.from.post) THEN Get(seg.from.post) ELSE p0
        p2 == IF Has(seg.to.pre) THEN Get(seg.to.pre) ELSE p3
    IN  Vec(Cubic(k, p0.x, p1.x, p2.x, p3.x), Cubic(k, p0.y, p1.y, p2.y, p3.y))

\* the y of a segment's lookup map at x
Lookup(seg, x) ==
    LET hits == {k \in 0 .. SampleCount - 1 :
                    Le(Sample(seg, k).x, x) /\ Le(x, Sample(seg, k + 1).x)}
    IN  IF hits = {} THEN NaN
        ELSE LET k == CHOOSE k \in hits : \A j \in hits : k <= j
                 a == Sample(seg, k)
                 b == Sample(seg, k + 1)
             IN  IF a.x = b.x THEN a.y
                 ELSE Add(a.y, Mul(Sub(b.y, a.y),
                                   Div(Sub(x, a.x), Sub(b.x, a.x))))

getValueFromSegments(segments, time) ==
    LET hits == {i \in 1 .. Len(segments) :
                    Le(segments[i].range[1], time) /\ Le(time, segments[i].range[2])}
    IN  IF hits = {} THEN NaN
        ELSE Lookup(segments[CHOOSE i \in hits : \A j \in hits : i <= j], time)

\* getValue(time), in a store on which the derivation is total
getValue(s, time) == getValueFromSegments(lookupMapSegments(s), time)

(***************************************************************************)
(* addAnchor and deleteAnchor.  Each returns the store after the call and  *)
(* whether the call threw.                                                 *)
(***************************************************************************)
Result(s, err) == [anchors |-> s, err |-> err]

\* addAnchor of part_001 and create-timeline.tsx: nothing when no anchor
\* lies after `time`
addAnchorNoAppend(s, time, value) ==
    LET index == FindIndex(s, time)
    IN  IF index = -1 THEN Result(s, FALSE)
        ELSE Result(SpliceIn(s, index,
                        Anchor(Vec(time, value), Some(DefaultControl),
                               Some(DefaultControl))),
                    FALSE)

\* addAnchor of part_000: appends and prepends, giving the anchor that was
\* at the edge the control that faces the new one
addAnchorAppend(s, time, value) ==
    LET index == FindIndex(s, time)
    IN  IF index = -1
        THEN IF Len(s) = 0
             THEN Result(s, TRUE)
             ELSE Result([s EXCEPT ![Len(s)].post = Some(DefaultControl)]
                            \o << Anchor(Vec(time, value), Some(DefaultControl), None) >>,
                         FALSE)
        ELSE IF index = 0
        THEN Result(<< Anchor(Vec(time, value), None, Some(DefaultControl)) >>
                        \o [s EXCEPT ![1].pre = Some(DefaultControl)],
                    FALSE)
        ELSE Result(SpliceIn(s, index,
                        Anchor(Vec(time, value), Some(DefaultControl),
                               Some(DefaultControl))),
                    FALSE)

\* addAnchor(time, value) with the value given
addAnchor(v, s, time, value) ==
    IF v = "p0" THEN addAnchorAppend(s, time, value)
    ELSE addAnchorNoAppend(s, time, value)

\* a variant of addAnchor(time) that evaluates the default value on the
\* store as it is after the insertion, where the curve passes through the
\* new anchor
addAnchorDefaultAfterInsertion(v, s, time) ==
    LET inserted == addAnchor(v, s, time, Num(0))
    IN  IF ~DerivationTotal(s) \/ inserted.err \/ ~DerivationTotal(inserted.anchors)
        THEN Result(s, TRUE)
        ELSE addAnchor(v, s, time, getValue(inserted.anchors, time))

\* addAnchor(time): the default value getValue(time) is evaluated when the
\* call is made, on the store as it is then; it throws where the derivation
\* of the absolute anchors does
addAnchorDefault(v, s, time) ==
    IF ~DerivationTotal(s) THEN Result(s, TRUE)
    ELSE addAnchor(v, s, time, getValue(s, time))

\* a variant of deleteAnchor that removes two anchors: splice(index, 2)
deleteAnchorTwo(s, index) == Result(SpliceOut(SpliceOut(s, index), index), FALSE)

\* deleteAnchor(index)
deleteAnchor(s, index) == Result(SpliceOut(s, index), FALSE)

(***************************************************************************)
(* The Timeline component: paired anchors, the conversion of an absolute   *)
(* control to the stored relative control, the clamps of a position drag,  *)
(* padding.                                                                *)
(***************************************************************************)
\* props.min and props.max, the nominal value range given by the host
propsMin == 0

propsMax == 1

\* the margin part_000 adds to every padding
Margin == 100

\* getPairedAnchorPosition(type, index) / getPairedAnchor(type, index), read
\* on the absolute anchors abs: undefined at the edges; beyond the array the
\* read of absoluteAnchors()[...] fails, which HasPaired excludes
HasPaired(abs, type, index) ==
    /\ InRange(abs, index)
    /\ ~(type = "pre" /\ index = 0)
    /\ ~(type = "post" /\ index = Len(abs) - 1)

getPairedAnchorPosition(abs, type, index) ==
    IF HasPaired(abs, type, index)
    THEN Some(At(abs, IF type = "pre" THEN index - 1 ELSE index + 1).position)
    ELSE None

\* absoluteToRelativeControl of part_000 and part_001, where a paired anchor
\* exists
absoluteToRelativeControl(abs, type, index, absoluteControl) ==
    LET position == At(abs, index).position
        pairedPosition == Get(getPairedAnchorPosition(abs, type, index))
        min == IF type = "post" THEN position ELSE pairedPosition
        max == IF type = "post" THEN pairedPosition ELSE position
        x == MathMax(min.x, MathMin(max.x, absoluteControl.x))
    IN  Vec(Div(MathAbs(Sub(position.x, x)),
                MathAbs(Sub(position.x, pairedPosition.x))),
            MathFloor(Sub(absoluteControl.y, position.y)))

\* the relative control onAnchorChange of create-timeline.tsx writes, where
\* the connected anchor exists; unproject(position, 'x') is position.x there
\* (origin.x is 0 and zoom.x is 1)
onAnchorChangeControl(abs, type, index, position) ==
    LET point == At(abs, index).position
        connectedPoint == At(abs, IF type = "post" THEN index + 1 ELSE index - 1).position
        x0 == position.x
        x1 == IF (type = "post" /\ Lt(connectedPoint.x, x0))
                 \/ (type # "post" /\ Gt(connectedPoint.x, x0))
              THEN connectedPoint.x ELSE x0
        absoluteX == IF (type = "post" /\ Lt(x1, point.x))
                        \/ (type # "post" /\ Gt(x1, point.x))
                     THEN point.x ELSE x1
        deltaX == MathAbs(Sub(point.x, connectedPoint.x))
    IN  Vec(Div(MathAbs(Sub(point.x, absoluteX)), deltaX),
            MathFloor(Sub(position.y, point.y)))

\* the clamps of a position drag: pre and post are the optional positions of
\* the previous and the next anchor
ClampPosition(position, pre, post) ==
    LET x1 == IF Has(pre) /\ Lt(Sub(position.x, Num(1)), Get(pre).x)
              THEN Add(Get(pre).x, Num(1)) ELSE position.x
        x2 == IF Has(post) /\ Gt(Add(x1, Num(1)), Get(post).x)
              THEN Sub(Get(post).x, Num(1)) ELSE x1
    IN  Vec(x2, position.y)

\* a variant of the control write that copies the control to the opposite
\* control of the anchor when it has one
SetControlBoth(s, index, type, control) ==
    LET a == s[index + 1]
    IN  [s EXCEPT ![index + 1] =
            Anchor(a.position,
                   IF type = "pre" \/ Has(a.pre) THEN Some(control) ELSE a.pre,
                   IF type = "post" \/ Has(a.post) THEN Some(control) ELSE a.post)]

\* setAnchors(index, 0, position) and setAnchors(index, 1, type, control)
SetPosition(s, index, position) == [s EXCEPT ![index + 1].position = position]

SetControl(s, index, type, control) ==
    IF type = "pre" THEN [s EXCEPT ![index + 1].pre = Some(control)]
    ELSE [s EXCEPT ![index + 1].post = Some(control)]

maxPaddingFromVector(v, value) ==
    LET over == Sub(MathMax(value.y, Num(propsMax)), Num(propsMax))
    IN  IF v = "p0" THEN Add(over, Num(Margin)) ELSE over

minPaddingFromVector(v, value) ==
    LET under == Sub(Num(propsMin), MathMin(value.y, Num(propsMin)))
    IN  IF v = "p0" THEN Add(under, Num(Margin)) ELSE under

\* the vectors updatePadding visits: every anchor and every absolute control
PaddingVectors(abs) ==
    {abs[i].position : i \in 1 .. Len(abs)}
    \cup {Get(abs[i].pre) : i \in {j \in 1 .. Len(abs) : Has(abs[j].pre)}}
    \cup {Get(abs[i].post) : i \in {j \in 1 .. Len(abs) : Has(abs[j].post)}}

\* Math.max folded over a set of numbers, from 0
RECURSIVE FoldMax(_, _)
FoldMax(acc, S) ==
    IF S = {} THEN acc
    ELSE LET a == CHOOSE a \in S : TRUE
         IN  FoldMax(MathMax(acc, a), S \ {a})

\* updatePadding(): the values given to setPaddingMin and setPaddingMax
updatePadding(v, abs) ==
    [min |-> FoldMax(Num(0), {minPaddingFromVector(v, w) : w \in PaddingVectors(abs)}),
     max |-> FoldMax(Num(0), {maxPaddingFromVector(v, w) : w \in PaddingVectors(abs)})]

(***************************************************************************)
(* State                                                                   *)
(***************************************************************************)
VARIABLES
    variant,        \* the revision of the source: "p0", "p1" or "ct"
    anchors,        \* the store of createTimeline
    sessions,       \* the pointer sessions in progress, with what each captured
    active,         \* the handles whose `active` signal is true
    draggingHandle, \* the shared signal draggingHandle
    paddingMin,     \* the signal paddingMin
    paddingMax,     \* the signal paddingMax
    ops,            \* the number of calls and gestures made so far
    last            \* the call made last: its name, arguments and outcome

vars == << variant, anchors, sessions, active, draggingHandle,
           paddingMin, paddingMax, ops, last >>

Variants == {"p0", "p1", "ct"}

\* inputs: the times and values addAnchor is called with
Times == {Num(0), Num(1), Num(2)}

Values == {Num(1)}

\* inputs: the pointer displacements of a drag step, already divided by zoom()
Deltas == {Vec(Num(0), Num(0)), Vec(Frac(1, 2), Frac(1, 2)),
           Vec(Num(2), Num(-1)), Vec(Num(-2), Num(0))}

\* config.initial: the well-formed stores over InitTimes, each with the
\* default handles towards its neighbours or with no handles at all
InitTimes == {Num(0), Frac(1, 4), Frac(1, 2), Num(2)}

InitValues == {Num(0)}

WithHandles(s, h) ==
    [i \in 1 .. Len(s) |->
        Anchor(s[i].position,
               IF h /\ i > 1 THEN Some(DefaultControl) ELSE None,
               IF h /\ i < Len(s) THEN Some(DefaultControl) ELSE None)]

InitStores ==
    LET Bare == UNION {[1 .. n -> {Anchor(Vec(x, y), None, None) :
                                      x \in InitTimes, y \in InitValues}] :
                       n \in 0 .. MaxLen}
    IN  {WithHandles(s, h) : s \in {b \in Bare : StrictlyIncreasing(b)},
                             h \in BOOLEAN}

\* a coordinate the model lets a drag write
InBox(position) ==
    /\ IsFinite(position.x) => Le(MathAbs(position.x), Num(MaxCoord))
    /\ IsFinite(position.y) => Le(MathAbs(position.y), Num(MaxCoord))

NoVec == Vec(Num(0), Num(0))

Log(op, time, value, dflt, index, kind, delta, meta, err) ==
    [op |-> op, time |-> time, value |-> value, dflt |-> dflt, index |-> index,
     kind |-> kind, delta |-> delta, meta |-> meta, err |-> err]

Init ==
    /\ variant \in Variants
    /\ anchors \in InitStores
    /\ sessions = << >>
    /\ active = {}
    /\ draggingHandle = FALSE
    /\ paddingMin = updatePadding(variant, absoluteAnchors(anchors)).min
    /\ paddingMax = updatePadding(variant, absoluteAnchors(anchors)).max
    /\ ops = 0
    /\ last = Log("createTimeline", Num(0), Num(0), FALSE, 0, "", NoVec, FALSE, FALSE)

(***************************************************************************)
(* Store operations called through the API                                 *)
(***************************************************************************)
AddAnchorValue(time, value) ==
    /\ ops < MaxOps
    /\ Len(anchors) < MaxLen
    /\ LET r == addAnchor(variant, anchors, time, value)
       IN  /\ anchors' = r.anchors
           /\ last' = Log("addAnchor", time, value, FALSE, FindIndex(anchors, time),
                          "", NoVec, FALSE, r.err)
    /\ ops' = ops + 1
    /\ UNCHANGED << variant, sessions, active, draggingHandle, paddingMin,
                    paddingMax >>

AddAnchorDefault(time) ==
    /\ ops < MaxOps
    /\ Len(anchors) < MaxLen
    /\ LET r == addAnchorDefault(variant, anchors, time)
       IN  /\ anchors' = r.anchors
           /\ last' = Log("addAnchor", time, Num(0), TRUE, FindIndex(anchors, time),
                          "", NoVec, FALSE, r.err)
    /\ ops' = ops + 1
    /\ UNCHANGED << variant, sessions, active, draggingHandle, paddingMin,
                    paddingMax >>

DeleteAnchor(index) ==
    /\ ops < MaxOps
    /\ LET r == deleteAnchor(anchors, index)
       IN  /\ anchors' = r.anchors
           /\ last' = Log("deleteAnchor", Num(0), Num(0), FALSE, index,
                          "", NoVec, FALSE, r.err)
    /\ ops' = ops + 1
    /\ UNCHANGED << variant, sessions, active, draggingHandle, paddingMin,
                    paddingMax >>

(***************************************************************************)
(* Drag sessions.  Handle.onPointerDown sets the flags and begins a        *)
(* pointer session (utils/pointer-helper, modelled from the specification: *)
(* a sequence of delta events ended by the release of the pointer); what   *)
(* the handlers capture at pointer-down is kept in the session.            *)
(***************************************************************************)
Session(index, kind, initial, pre, post, ratio, meta) ==
    [index |-> index, kind |-> kind, initial |-> initial, pre |-> pre,
     post |-> post, ratio |-> ratio, meta |-> meta, moves |-> 0]

\* the handle (index, kind) is rendered: its anchor, and for a control its
\* absolute control, is in absoluteAnchors()
Rendered(s, index, kind) ==
    /\ DerivationTotal(s)
    /\ InRange(s, index)
    /\ kind = "pre" => Has(At(s, index).pre)
    /\ kind = "post" => Has(At(s, index).post)

\* the absolute position of the handle: props.position of Handle
HandlePosition(abs, index, kind) ==
    IF kind = "pre" THEN Get(At(abs, index).pre)
    ELSE IF kind = "post" THEN Get(At(abs, index).post)
    ELSE At(abs, index).position

\* ratio of onControlDragStart: undefined unless both neighbours exist
ControlRatio(abs, index, type) ==
    LET position == At(abs, index).position
        prePosition == getPairedAnchorPosition(abs, "pre", index)
        postPosition == getPairedAnchorPosition(abs, "post", index)
    IN  IF Has(prePosition) /\ Has(postPosition)
        THEN LET preRange == subtractVector(position, Get(prePosition))
                 postRange == subtractVector(position, Get(postPosition))
             IN  Some(IF type = "pre" THEN Div(postRange.x, preRange.x)
                      ELSE Div(preRange.x, postRange.x))
        ELSE None

\* what onPointerDown and the handler it awaits capture
Capture(v, s, index, kind, metaKey) ==
    LET abs == absoluteAnchors(s)
    IN  IF v = "ct"
        THEN Session(index, kind, HandlePosition(abs, index, kind), None, None,
                     None, metaKey)
        ELSE Session(index, kind, HandlePosition(abs, index, kind),
                     getPairedAnchorPosition(abs, "pre", index),
                     getPairedAnchorPosition(abs, "post", index),
                     IF kind = "position" THEN None ELSE ControlRatio(abs, index, kind),
                     FALSE)

PointerDown(index, kind, metaKey) ==
    /\ ops < MaxOps
    /\ Len(sessions) < MaxSessions
    /\ Rendered(anchors, index, kind)
    /\ \A k \in 1 .. Len(sessions) :
           << sessions[k].index, sessions[k].kind >> # << index, kind >>
    /\ sessions' = Append(sessions, Capture(variant, anchors, index, kind, metaKey))
    /\ active' = active \cup {<< index, kind >>}
    /\ draggingHandle' = TRUE
    /\ ops' = ops + 1
    /\ last' = Log("pointerDown", Num(0), Num(0), FALSE, index, kind, NoVec,
                   metaKey, FALSE)
    /\ UNCHANGED << variant, anchors, paddingMin, paddingMax >>

Paired(type) == IF type = "pre" THEN "post" ELSE "pre"

\* a variant of the control step without the throw for a missing paired
\* anchor: it writes the control at relative x 0 instead
ControlStepUnguarded(s, ses, delta, metaKey) ==
    LET abs == absoluteAnchors(s)
    IN  IF ~DerivationTotal(s) \/ ~InRange(s, ses.index)
        THEN Result(s, TRUE)
        ELSE LET absoluteControl == subtractVector(ses.initial, delta)
                 control == IF HasPaired(abs, ses.kind, ses.index)
                            THEN absoluteToRelativeControl(abs, ses.kind, ses.index,
                                                           absoluteControl)
                            ELSE Vec(Num(0), MathFloor(Sub(absoluteControl.y,
                                         At(abs, ses.index).position.y)))
             IN  Result(SetControl(s, ses.index, ses.kind, control), FALSE)

\* one step of onControlDragStart's pointer callback (part_000, part_001)
ControlStep(s, ses, delta, metaKey) ==
    LET abs == absoluteAnchors(s)
    IN  IF ~DerivationTotal(s) \/ ~HasPaired(abs, ses.kind, ses.index)
        THEN Result(s, TRUE)
        ELSE LET absoluteControl == subtractVector(ses.initial, delta)
                 control == absoluteToRelativeControl(abs, ses.kind, ses.index,
                                                      absoluteControl)
                 s1 == SetControl(s, ses.index, ses.kind, control)
             IN  IF metaKey /\ Has(ses.ratio) /\ Truthy(Get(ses.ratio))
                 THEN Result(SetControl(s1, ses.index, Paired(ses.kind),
                                 Vec(control.x, Mul(control.y, Get(ses.ratio)))),
                             FALSE)
                 ELSE Result(s1, FALSE)

\* one step of onPositionDragStart's pointer callback (part_000, part_001)
PositionStep(s, ses, delta) ==
    IF ~InRange(s, ses.index) THEN Result(s, TRUE)
    ELSE Result(SetPosition(s, ses.index,
                    ClampPosition(subtractVector(ses.initial, delta), ses.pre, ses.post)),
                FALSE)

\* onAnchorChange(type, index, position) of create-timeline.tsx
onAnchorChange(s, type, index, position) ==
    LET abs == absoluteAnchors(s)
    IN  IF ~DerivationTotal(s) \/ ~HasPaired(abs, type, index)
        THEN Result(s, TRUE)
        ELSE Result(SetControl(s, index, type,
                        onAnchorChangeControl(abs, type, index, position)),
                    FALSE)

\* onPositionChange(index, position) of create-timeline.tsx
onPositionChange(s, index, position) ==
    LET abs == absoluteAnchors(s)
    IN  IF ~DerivationTotal(s) \/ ~InRange(s, index)
        THEN Result(s, TRUE)
        ELSE Result(SetPosition(s, index,
                        ClampPosition(position,
                            IF InRange(s, index - 1)
                            THEN Some(At(abs, index - 1).position) ELSE None,
                            IF InRange(s, index + 1)
                            THEN Some(At(abs, index + 1).position) ELSE None)),
                    FALSE)

\* one step of Handle's pointer callback in create-timeline.tsx: the
\* onChange of Anchor, which in symmetric mode moves the other control too
ChangeStep(s, ses, delta) ==
    LET position == subtractVector(ses.initial, delta)
    IN  IF ses.kind = "position" THEN onPositionChange(s, ses.index, position)
        ELSE LET r1 == onAnchorChange(s, ses.kind, ses.index, position)
                 other == Paired(ses.kind)
             IN  IF r1.err THEN r1
                 ELSE LET abs1 == absoluteAnchors(r1.anchors)
                          otherControl == IF other = "pre"
                                          THEN At(abs1, ses.index).pre
                                          ELSE At(abs1, ses.index).post
                      IN  IF ses.meta /\ Has(otherControl)
                          THEN onAnchorChange(r1.anchors, other, ses.index,
                                   subtractVector(Get(otherControl),
                                       Vec(Mul(delta.x, Num(-1)), Mul(delta.y, Num(-1)))))
                          ELSE r1

DragStep(v, s, ses, delta, metaKey) ==
    IF v = "ct" THEN ChangeStep(s, ses, delta)
    ELSE IF ses.kind = "position" THEN PositionStep(s, ses, delta)
    ELSE ControlStep(s, ses, delta, metaKey)

\* every coordinate a step wrote lies within the model's bounds
StoreInBox(s) ==
    \A i \in 1 .. Len(s) :
        /\ InBox(s[i].position)
        /\ Has(s[i].pre) => InBox(Get(s[i].pre))
        /\ Has(s[i].post) => InBox(Get(s[i].post))

\* the delta events received so far by the sessions in progress
RECURSIVE MovesOf(_)
MovesOf(ss) == IF ss = << >> THEN 0 ELSE Head(ss).moves + MovesOf(Tail(ss))

\* a variant of the delta event that recomputes the padding on every frame
MoveWithPadding(k, delta, metaKey) ==
    /\ k \in 1 .. Len(sessions)
    /\ Len(sessions) + MovesOf(sessions) <= MaxMoves
    /\ LET r == DragStep(variant, anchors, sessions[k], delta, metaKey)
       IN  /\ StoreInBox(r.anchors)
           /\ anchors' = r.anchors
           /\ last' = Log("move", Num(0), Num(0), FALSE, sessions[k].index,
                          sessions[k].kind, delta,
                          IF variant = "ct" THEN sessions[k].meta ELSE metaKey, r.err)
           /\ IF DerivationTotal(r.anchors)
              THEN /\ paddingMin' = updatePadding(variant, absoluteAnchors(r.anchors)).min
                   /\ paddingMax' = updatePadding(variant, absoluteAnchors(r.anchors)).max
              ELSE UNCHANGED << paddingMin, paddingMax >>
    /\ sessions' = [sessions EXCEPT ![k].moves = @ + 1]
    /\ UNCHANGED << variant, active, draggingHandle, ops >>

\* a delta event of session k; the sessions in progress and the delta events
\* they have received together stay within MaxMoves + 1
Move(k, delta, metaKey) ==
    /\ k \in 1 .. Len(sessions)
    /\ Len(sessions) + MovesOf(sessions) <= MaxMoves
    /\ LET r == DragStep(variant, anchors, sessions[k], delta, metaKey)
       IN  /\ StoreInBox(r.anchors)
           /\ anchors' = r.anchors
           /\ last' = Log("move", Num(0), Num(0), FALSE, sessions[k].index,
                          sessions[k].kind, delta,
                          IF variant = "ct" THEN sessions[k].meta ELSE metaKey, r.err)
    /\ sessions' = [sessions EXCEPT ![k].moves = @ + 1]
    /\ UNCHANGED << variant, active, draggingHandle, paddingMin, paddingMax, ops >>

\* a variant of the release that leaves out updatePadding()
ReleaseWithoutPadding(k) ==
    /\ k \in 1 .. Len(sessions)
    /\ sessions' = SubSeq(sessions, 1, k - 1) \o SubSeq(sessions, k + 1, Len(sessions))
    /\ active' = active \ {<< sessions[k].index, sessions[k].kind >>}
    /\ draggingHandle' = FALSE
    /\ last' = Log("release", Num(0), Num(0), FALSE, sessions[k].index,
                   sessions[k].kind, NoVec, FALSE, FALSE)
    /\ UNCHANGED << variant, anchors, ops, paddingMin, paddingMax >>

\* the pointer is released: the pointer session resolves, updatePadding()
\* runs and, unless it threw, Handle resets the flags
Release(k) ==
    /\ k \in 1 .. Len(sessions)
    /\ sessions' = SubSeq(sessions, 1, k - 1) \o SubSeq(sessions, k + 1, Len(sessions))
    /\ IF DerivationTotal(anchors)
       THEN \E abs \in {absoluteAnchors(anchors)} :
                /\ paddingMin' = updatePadding(variant, abs).min
                /\ paddingMax' = updatePadding(variant, abs).max
                /\ active' = active \ {<< sessions[k].index, sessions[k].kind >>}
                /\ draggingHandle' = FALSE
       ELSE UNCHANGED << paddingMin, paddingMax, active, draggingHandle >>
    /\ last' = Log("release", Num(0), Num(0), FALSE, sessions[k].index,
                   sessions[k].kind, NoVec, FALSE, ~DerivationTotal(anchors))
    /\ UNCHANGED << variant, anchors, ops >>

\* the modifier key of an event, where the handler of the event reads it
MetaKeys(read) == IF read THEN BOOLEAN ELSE {FALSE}

Next ==
    \/ \E time \in Times, value \in Values : AddAnchorValue(time, value)
    \/ \E time \in Times : AddAnchorDefault(time)
    \/ \E index \in -1 .. Len(anchors) : DeleteAnchor(index)
    \/ \E index \in 0 .. Len(anchors) - 1, kind \in {"position", "pre", "post"} :
          \E metaKey \in MetaKeys(variant = "ct" /\ kind # "position") :
              PointerDown(index, kind, metaKey)
    \/ \E k \in 1 .. Len(sessions), delta \in Deltas :
          \E metaKey \in MetaKeys(variant # "ct" /\ sessions[k].kind # "position") :
              Move(k, delta, metaKey)
    \/ \E k \in 1 .. Len(sessions) : Release(k)

Spec == Init /\ [][Next]_vars

(***************************************************************************)
(* Properties                                                              *)
(***************************************************************************)
\* the data model's well-formed store: finite numbers, times strictly
\* increasing, pre only with a previous and post only with a next neighbour
FiniteVec(w) == IsFinite(w.x) /\ IsFinite(w.y)

WellFormed(s) ==
    /\ StrictlyIncreasing(s)
    /\ DerivationTotal(s)
    /\ \A i \in 1 .. Len(s) :
           /\ FiniteVec(s[i].position)
           /\ Has(s[i].pre) => FiniteVec(Get(s[i].pre))
           /\ Has(s[i].post) => FiniteVec(Get(s[i].post))

\* the step is a call of addAnchor / of deleteAnchor
AddStep == last'.op = "addAnchor"

DeleteStep == last'.op = "deleteAnchor"

\* the step is a call of addAnchor that put one more anchor into the store
AddInserted == AddStep /\ Len(anchors') = Len(anchors) + 1

\* the 0-based index at which that call inserted: before the first anchor
\* after `time`, at the end when there is none
NewIndex ==
    IF FindIndex(anchors, last'.time) = -1 THEN Len(anchors)
    ELSE FindIndex(anchors, last'.time)

\* the step is a delta event of session k
MoveStep(k) ==
    /\ last'.op = "move"
    /\ k \in 1 .. Len(sessions)
    /\ sessions'[k].moves = sessions[k].moves + 1

\* the neighbours session k captured at pointer-down are still the
\* neighbours of its anchor (create-timeline.tsx captures none)
Fresh(k) ==
    LET ses == sessions[k]
    IN  /\ InRange(anchors, ses.index)
        /\ variant # "ct" =>
               /\ ses.pre = (IF ses.index > 0
                             THEN Some(At(anchors, ses.index - 1).position) ELSE None)
               /\ ses.post = (IF ses.index < Len(anchors) - 1
                              THEN Some(At(anchors, ses.index + 1).position) ELSE None)

\* C1: from a store strictly increasing in position.x, every step of an
\* anchor-position drag leaves the anchors strictly increasing in position.x
C1_PositionDragKeepsOrder ==
    [][\A k \in 1 .. Len(sessions) :
           (/\ MoveStep(k)
            /\ sessions[k].kind = "position"
            /\ Fresh(k)
            /\ StrictlyIncreasing(anchors))
           => StrictlyIncreasing(anchors')]_vars

\* C2: from a store strictly increasing in position.x, the store after
\* addAnchor(time) is strictly increasing in position.x, for every time
C2_AddKeepsOrder ==
    [][(AddStep /\ StrictlyIncreasing(anchors)) => StrictlyIncreasing(anchors')]_vars

\* C3: in every reachable store an anchor has a pre control only with a
\* previous neighbour and a post control only with a next one, so the
\* derivation of the absolute anchors reads no anchor outside the array
C3_DerivationTotal == DerivationTotal(anchors)

\* C4: on at least 3 well-formed anchors deleteAnchor(0) leaves a sequence
\* one shorter whose first anchor has no pre handle
C4_DeleteFirstDropsPre ==
    [][(DeleteStep /\ last'.index = 0 /\ Len(anchors) >= 3 /\ WellFormed(anchors))
       => (Len(anchors') = Len(anchors) - 1 /\ ~Has(anchors'[1].pre))]_vars

\* C5: after addAnchor has inserted an anchor into a well-formed sequence,
\* deleteAnchor at the index of the new anchor gives the original sequence
C5_AddThenDeleteRestores ==
    [][(AddInserted /\ WellFormed(anchors))
       => deleteAnchor(anchors', NewIndex).anchors = anchors]_vars

\* C6: the anchor addAnchor inserts has the pre control (0.5, 0) exactly
\* when it has a previous neighbour and the post control (0.5, 0) exactly
\* when it has a next neighbour
C6_NewAnchorControls ==
    [][AddInserted
       => LET a == At(anchors', NewIndex)
          IN  /\ Has(a.pre) <=> NewIndex > 0
              /\ Has(a.post) <=> NewIndex < Len(anchors') - 1
              /\ Has(a.pre) => Get(a.pre) = DefaultControl
              /\ Has(a.post) => Get(a.post) = DefaultControl]_vars

C8_NoAppend ==
    [][(AddStep /\ variant \in {"p1", "ct"})
       => IF FindIndex(anchors, last'.time) = -1
          THEN anchors' = anchors /\ ~last'.err
          ELSE /\ Len(anchors') = Len(anchors) + 1
               /\ SpliceOut(anchors', NewIndex) = anchors]_vars

\* C9: where addAnchor prepends and appends (part_000), on every store, the
\* empty one too, a time before the first anchor prepends an anchor with
\* only a post control and gives the former first anchor the pre control
\* (0.5, 0); a time not before any anchor appends an anchor with only a pre
\* control and gives the former last anchor the post control (0.5, 0); the
\* other control of that anchor is kept
C9_PrependAppend ==
    [][(AddStep /\ variant = "p0")
       => LET n == Len(anchors)
              index == FindIndex(anchors, last'.time)
          IN  /\ index = 0 =>
                     /\ Len(anchors') = n + 1
                     /\ anchors'[1].position.x = last'.time
                     /\ anchors'[1].pre = None
                     /\ anchors'[1].post = Some(DefaultControl)
                     /\ anchors'[2] = [anchors[1] EXCEPT !.pre = Some(DefaultControl)]
              /\ index = -1 =>
                     /\ Len(anchors') = n + 1
                     /\ anchors'[n + 1].position.x = last'.time
                     /\ anchors'[n + 1].pre = Some(DefaultControl)
                     /\ anchors'[n + 1].post = None
                     /\ n > 0 =>
                            anchors'[n] = [anchors[n] EXCEPT !.post = Some(DefaultControl)]]_vars

\* the relative control a step of session k wrote
Written(k) ==
    IF sessions[k].kind = "pre" THEN Get(At(anchors', sessions[k].index).pre)
    ELSE Get(At(anchors', sessions[k].index).post)

\* the anchor paired with the handle of session k, before the step
PairedX(k) ==
    At(anchors, IF sessions[k].kind = "pre" THEN sessions[k].index - 1
                ELSE sessions[k].index + 1).position.x

\* C10: a control-handle drag step on an anchor whose paired neighbour is at
\* a different x writes a relative x within [0, 1]: 0 when the candidate x
\* is on the far side of the anchor, 1 when it is beyond the neighbour
C10_HandleClamp ==
    [][\A k \in 1 .. Len(sessions) :
           (/\ MoveStep(k)
            /\ sessions[k].kind # "position"
            /\ ~last'.err
            /\ PairedX(k) # At(anchors, sessions[k].index).position.x)
           => LET x == Written(k).x
                  own == At(anchors, sessions[k].index).position.x
                  candidate == Sub(sessions[k].initial.x, last'.delta.x)
              IN  /\ Le(Num(0), x) /\ Le(x, Num(1))
                  /\ sessions[k].kind = "post" =>
                         /\ Lt(candidate, own) => x = Num(0)
                         /\ Gt(candidate, PairedX(k)) => x = Num(1)
                  /\ sessions[k].kind = "pre" =>
                         /\ Gt(candidate, own) => x = Num(0)
                         /\ Lt(candidate, PairedX(k)) => x = Num(1)]_vars

\* the absolute position a step of session k asks for: the handle's position
\* at pointer-down less the pointer's displacement
Candidate(k) == subtractVector(sessions[k].initial, last'.delta)

\* the candidate of a control step lies between the anchor and its paired
\* neighbour, so that no clamp applies
Unclamped(k) ==
    LET own == At(anchors, sessions[k].index).position.x
    IN  IF sessions[k].kind = "post"
        THEN Le(own, Candidate(k).x) /\ Le(Candidate(k).x, PairedX(k))
        ELSE Le(PairedX(k), Candidate(k).x) /\ Le(Candidate(k).x, own)

\* C11: an absolute handle vector whose x lies between its anchor and the
\* paired neighbour, converted to the relative control and derived again from
\* the store, is the same vector, for pre and for post handles
C11_RoundTrip ==
    [][\A k \in 1 .. Len(sessions) :
           (/\ MoveStep(k)
            /\ sessions[k].kind # "position"
            /\ ~last'.err
            /\ WellFormed(anchors)
            /\ Unclamped(k))
           => HandlePosition(absoluteAnchors(anchors'), sessions[k].index,
                             sessions[k].kind) = Candidate(k)]_vars

\* C12: on a well-formed store every derived anchor has the stored position,
\* the absolute pre handle position + ((position.x - prev.x) * (-pre.x), pre.y)
\* when pre is stored, the absolute post handle
\* position + ((next.x - position.x) * post.x, post.y) when post is stored,
\* and no absolute control where none is stored
C12_AbsoluteDerivation ==
    WellFormed(anchors) =>
        \A i \in 1 .. Len(anchors) :
            LET stored == anchors[i]
                derived == absoluteAnchors(anchors)[i]
                p == stored.position
            IN  /\ derived.position = p
                /\ Has(derived.pre) <=> Has(stored.pre)
                /\ Has(derived.post) <=> Has(stored.post)
                /\ Has(stored.pre) =>
                       Get(derived.pre)
                           = Vec(Add(p.x, Mul(Sub(p.x, anchors[i - 1].position.x),
                                              Neg(Get(stored.pre).x))),
                                 Add(p.y, Get(stored.pre).y))
                /\ Has(stored.post) =>
                       Get(derived.post)
                           = Vec(Add(p.x, Mul(Sub(anchors[i + 1].position.x, p.x),
                                              Get(stored.post).x)),
                                 Add(p.y, Get(stored.post).y))

\* C12 happens: a well-formed store in which a control drag has given an
\* anchor between two others a pre control off the default
C12_Witness ==
    /\ WellFormed(anchors)
    /\ last.op = "move" /\ last.kind = "pre" /\ ~last.err
    /\ \E i \in 2 .. Len(anchors) - 1 :
           /\ Has(anchors[i].pre) /\ Has(anchors[i].post)
           /\ Get(anchors[i].pre).x \notin {Num(0), Frac(1, 2)}
           /\ Get(anchors[i].pre).y # Num(0)

\* C13: for every stored sequence sorted by time, absoluteAnchors() returns a
\* sequence of the same length whose element i has the position of stored
\* anchor i (DerivationTotal: the derivation returns instead of throwing)
C13_SameLengthAndOrder ==
    StrictlyIncreasing(anchors) =>
        /\ DerivationTotal(anchors)
        /\ Len(absoluteAnchors(anchors)) = Len(anchors)
        /\ \A i \in 1 .. Len(anchors) :
               absoluteAnchors(anchors)[i].position = anchors[i].position

\* C14: after every addAnchor, deleteAnchor and drag step, on a store of
\* N >= 1 anchors the segment list getValue passes to the sampler has N - 1
\* segments, segment i ranges from the x of anchor i to the x of anchor
\* i + 1, and each segment starts where the one before it ends
C14_Segments ==
    (last.op \in {"addAnchor", "deleteAnchor", "move"} /\ Len(anchors) >= 1) =>
        /\ DerivationTotal(anchors)
        /\ LET segments == lookupMapSegments(anchors)
           IN  /\ Len(segments) = Len(anchors) - 1
               /\ \A i \in 1 .. Len(segments) :
                      segments[i].range = << anchors[i].position.x,
                                             anchors[i + 1].position.x >>
               /\ \A i \in 1 .. Len(segments) - 1 :
                      segments[i].range[2] = segments[i + 1].range[1]

\* C15: deleteAnchor(index) with 0 <= index < length makes the sequence one
\* shorter, and every other anchor keeps its position, its controls and its
\* place relative to the others
C15_DeleteRemovesOne ==
    [][(DeleteStep /\ InRange(anchors, last'.index))
       => /\ Len(anchors') = Len(anchors) - 1
          /\ ~last'.err
          /\ \A j \in 0 .. Len(anchors) - 1 :
                 /\ j < last'.index => At(anchors', j) = At(anchors, j)
                 /\ j > last'.index => At(anchors', j - 1) = At(anchors, j)]_vars

\* C15 happens: deleteAnchor has removed an anchor that had anchors with
\* controls on both sides
C15_Witness ==
    /\ last.op = "deleteAnchor" /\ ~last.err
    /\ 0 < last.index /\ last.index < Len(anchors)
    /\ Has(At(anchors, last.index - 1).post)
    /\ Has(At(anchors, last.index).pre)

\* C16: deleteAnchor(index) with index < 0 or index >= length fails with an
\* error and leaves the anchor sequence as it was
C16_DeleteOutOfRange ==
    [][(DeleteStep /\ ~InRange(anchors, last'.index))
       => (last'.err /\ anchors' = anchors)]_vars

\* C17: a control drag step for a handle with no paired neighbour, a pre
\* handle at index 0 or a post handle at the last index, fails with an error
\* and leaves the anchor sequence as it was
C17_NoPairedFails ==
    [][\A k \in 1 .. Len(sessions) :
           (/\ MoveStep(k)
            /\ \/ sessions[k].kind = "pre" /\ sessions[k].index = 0
               \/ sessions[k].kind = "post" /\ sessions[k].index = Len(anchors) - 1)
           => (last'.err /\ anchors' = anchors)]_vars

\* C17 happens: a step of a post handle's drag has failed on a store, with
\* all its derived anchors defined, where the handle's anchor is the last
C17_Witness ==
    /\ last.op = "move" /\ last.err
    /\ last.kind = "post"
    /\ Len(anchors) >= 2
    /\ last.index = Len(anchors) - 1
    /\ DerivationTotal(anchors)

\* the step is the pointer release that ends a drag session
ReleaseStep == last'.op = "release"

\* C18: when a drag session, of a position or of a control handle, has ended
\* on pointer release and its handle is idle again, paddingMin and paddingMax
\* are the values updatePadding computes from the absolute anchors as they
\* are at the release
C18_PaddingOnRelease ==
    [][(ReleaseStep /\ << last'.index, last'.kind >> \notin active')
       => /\ Len(sessions') = Len(sessions) - 1
          /\ DerivationTotal(anchors')
          /\ \E abs \in {absoluteAnchors(anchors')} :
                 /\ paddingMin' = updatePadding(variant, abs).min
                 /\ paddingMax' = updatePadding(variant, abs).max]_vars

\* C18 happens: a drag that moved a point below props.min has been released
\* and the padding below is more than the padding of a curve within range
C18_Witness ==
    /\ last.op = "release" /\ ~last.err
    /\ sessions = << >>
    /\ \E i \in 1 .. Len(anchors) : Lt(anchors[i].position.y, Num(propsMin))
    /\ paddingMin \notin {Num(0), Num(Margin)}

\* C20: after a step of a position drag on a well-formed store, the x
\* written for the dragged anchor is at least prev.x + 1 when there is a
\* previous anchor and at most next.x - 1 when there is a next anchor
C20_PositionClamp ==
    [][\A k \in 1 .. Len(sessions) :
           (/\ MoveStep(k)
            /\ sessions[k].kind = "position"
            /\ ~last'.err
            /\ Fresh(k)
            /\ WellFormed(anchors))
           => LET index == sessions[k].index
                  x == At(anchors', index).position.x
              IN  /\ index > 0 =>
                         Le(Add(At(anchors, index - 1).position.x, Num(1)), x)
                  /\ index < Len(anchors) - 1 =>
                         Le(x, Sub(At(anchors, index + 1).position.x, Num(1)))]_vars

\* every derived absolute post handle has its x between its anchor and the
\* next anchor, every derived absolute pre handle between the previous
\* anchor and its anchor
HandlesInRange(s) ==
    \A i \in 1 .. Len(s) :
        LET a == absoluteAnchors(s)[i]
        IN  /\ Has(a.pre) =>
                   /\ Le(s[i - 1].position.x, Get(a.pre).x)
                   /\ Le(Get(a.pre).x, s[i].position.x)
            /\ Has(a.post) =>
                   /\ Le(s[i].position.x, Get(a.post).x)
                   /\ Le(Get(a.post).x, s[i + 1].position.x)

\* C21: a drag step, of a position or of a control handle, made on a
\* well-formed store whose derived handles lie between their anchor and its
\* neighbour leaves every derived handle between its anchor and its neighbour
C21_HandlesStayInRange ==
    [][\A k \in 1 .. Len(sessions) :
           (/\ MoveStep(k)
            /\ Fresh(k)
            /\ WellFormed(anchors)
            /\ HandlesInRange(anchors))
           => (DerivationTotal(anchors') /\ HandlesInRange(anchors'))]_vars

\* the offset of a derived absolute handle of anchor `index` from the anchor
Offset(s, index, type) ==
    subtractVector(HandlePosition(absoluteAnchors(s), index, type),
                   At(s, index).position)

\* the distance in x from anchor `index` to its neighbour on the side `type`
NeighbourDistance(s, index, type) ==
    MathAbs(Sub(At(s, index).position.x,
                At(s, IF type = "pre" THEN index - 1 ELSE index + 1).position.x))

\* C22: in symmetric mode, on an anchor with a previous and a next neighbour,
\* after a control drag step the offset of the paired handle from the anchor
\* is the offset of the dragged handle, turned to the opposite side and
\* scaled by the ratio of the two neighbour distances, so that the anchor
\* and its two derived handles are collinear
C22_SymmetricCollinear ==
    [][\A k \in 1 .. Len(sessions) :
           (/\ MoveStep(k)
            /\ sessions[k].kind # "position"
            /\ last'.meta /\ ~last'.err
            /\ 0 < sessions[k].index /\ sessions[k].index < Len(anchors) - 1
            /\ WellFormed(anchors)
            /\ Fresh(k)
            /\ variant # "ct" =>
                   sessions[k].ratio = ControlRatio(absoluteAnchors(anchors),
                                           sessions[k].index, sessions[k].kind))
           => LET index == sessions[k].index
                  type == sessions[k].kind
                  scale == Div(NeighbourDistance(anchors', index, Paired(type)),
                               NeighbourDistance(anchors', index, type))
              IN  /\ Has(At(anchors', index).pre) /\ Has(At(anchors', index).post)
                  /\ Offset(anchors', index, Paired(type))
                         = Vec(Neg(Mul(Offset(anchors', index, type).x, scale)),
                               Neg(Mul(Offset(anchors', index, type).y, scale)))]_vars

\* the handle a session drags
HandleOf(ses) == << ses.index, ses.kind >>

\* C23: pointer-down sets the handle's active flag and draggingHandle; both
\* are true before and after every delta event of the session; a session
\* ends at a pointer release and at no other event; after the release of a
\* session its handle's active flag and draggingHandle are false
C23_IdleDraggingIdle ==
    [][/\ last'.op = "pointerDown" =>
              (<< last'.index, last'.kind >> \in active' /\ draggingHandle')
       /\ \A k \in 1 .. Len(sessions) :
              MoveStep(k) =>
                  /\ HandleOf(sessions[k]) \in active /\ draggingHandle
                  /\ HandleOf(sessions[k]) \in active' /\ draggingHandle'
       /\ Len(sessions') < Len(sessions) => ReleaseStep
       /\ ReleaseStep =>
              (<< last'.index, last'.kind >> \notin active' /\ ~draggingHandle')]_vars

\* C24: after an addAnchor or a deleteAnchor of a rendered anchor that changed
\* the store while no drag is in progress, as a double-click or Value.Button
\* makes it, paddingMin and paddingMax are the values updatePadding computes
\* from the anchors after the change
C24_PaddingAfterStructuralChange ==
    [][(/\ AddStep \/ (DeleteStep /\ InRange(anchors, last'.index))
        /\ anchors' # anchors
        /\ sessions = << >>
        /\ DerivationTotal(anchors'))
       => /\ paddingMin' = updatePadding(variant, absoluteAnchors(anchors')).min
          /\ paddingMax' = updatePadding(variant, absoluteAnchors(anchors')).max]_vars

\* C25: a delta event of a drag session leaves paddingMin and paddingMax
\* unchanged whatever it writes, and while a session is in progress no step
\* but a pointer release changes them: a session's paddings stay as they
\* were at pointer-down until a release
C25_PaddingFrame ==
    [][/\ (\E k \in 1 .. Len(sessions) : MoveStep(k))
              => (paddingMin' = paddingMin /\ paddingMax' = paddingMax)
       /\ (sessions # << >> /\ ~ReleaseStep)
              => (paddingMin' = paddingMin /\ paddingMax' = paddingMax)]_vars

\* C25 happens: a delta event has written a store whose padding differs from
\* the paddings, and the session is still in progress
C25_Witness ==
    /\ last.op = "move" /\ ~last.err
    /\ sessions # << >>
    /\ DerivationTotal(anchors)
    /\ paddingMin # updatePadding(variant, absoluteAnchors(anchors)).min

\* the largest amount by which a y of the vectors W lies above props.max /
\* below props.min, 0 when none does; beyond 0 the revision with the margin
\* adds Margin
OverflowAbove(W) ==
    LET Out == {w \in W : Gt(w.y, Num(propsMax))}
    IN  IF Out = {} THEN Num(0)
        ELSE LET top == CHOOSE w \in Out : \A u \in Out : Le(u.y, w.y)
             IN  Add(Sub(top.y, Num(propsMax)),
                     IF variant = "p0" THEN Num(Margin) ELSE Num(0))

OverflowBelow(W) ==
    LET Out == {w \in W : Lt(w.y, Num(propsMin))}
    IN  IF Out = {} THEN Num(0)
        ELSE LET bottom == CHOOSE w \in Out : \A u \in Out : Le(w.y, u.y)
             IN  Add(Sub(Num(propsMin), bottom.y),
                     IF variant = "p0" THEN Num(Margin) ELSE Num(0))

\* C26: after the updatePadding() of a pointer release on a well-formed
\* store, paddingMax is the largest overflow of an anchor or absolute handle
\* y above props.max and paddingMin the largest overflow below props.min;
\* both are 0 when no value lies outside [min, max], and the margin is
\* added only when a value exceeds the range
C26_PaddingIsOverflow ==
    [][(ReleaseStep /\ ~last'.err /\ WellFormed(anchors'))
       => /\ paddingMax' = OverflowAbove(PaddingVectors(absoluteAnchors(anchors')))
          /\ paddingMin' = OverflowBelow(PaddingVectors(absoluteAnchors(anchors')))]_vars

\* C27: every addAnchor(time) called without a value, as the double-click on
\* the sheet calls it, evaluates getValue(time) with a time between the x of
\* the first and of the last anchor of the store
C27_GetValueInRange ==
    [][(AddStep /\ last'.dflt)
       => /\ anchors # << >>
          /\ Le(anchors[1].position.x, last'.time)
          /\ Le(last'.time, anchors[Len(anchors)].position.x)]_vars

\* C28: draggingHandle is true in every state in which a drag session is in
\* progress, also when two handles are pressed and one of the two sessions
\* has ended; it is false only when no session is in progress
C28_DraggingWhileAnySession ==
    sessions # << >> => draggingHandle

\* C29: when addAnchor or deleteAnchor has changed the neighbours of an
\* anchor since the position drag in progress on it captured them, a step
\* of that drag on a store strictly increasing in position.x still leaves
\* the anchors strictly increasing in position.x
C29_StaleDragKeepsOrder ==
    [][\A k \in 1 .. Len(sessions) :
           (/\ MoveStep(k)
            /\ sessions[k].kind = "position"
            /\ ~Fresh(k)
            /\ StrictlyIncreasing(anchors))
           => StrictlyIncreasing(anchors')]_vars

\* C30: a delta event of a session leaves every anchor but the one at the
\* session's index as it was; a step of a control drag without the symmetric
\* modifier changes nothing but the dragged control of that anchor (every
\* position and the opposite control stay); a step of a position drag
\* changes nothing but that anchor's position (every control stays)
C30_DragStepFrame ==
    [][\A k \in 1 .. Len(sessions) :
           MoveStep(k) =>
               LET index == sessions[k].index
                   type == sessions[k].kind
               IN  /\ Len(anchors') = Len(anchors)
                   /\ \A i \in 1 .. Len(anchors) :
                          i # index + 1 => anchors'[i] = anchors[i]
                   /\ (type # "position" /\ ~last'.meta) =>
                          \A i \in 1 .. Len(anchors) :
                              /\ anchors'[i].position = anchors[i].position
                              /\ type = "pre" => anchors'[i].post = anchors[i].post
                              /\ type = "post" => anchors'[i].pre = anchors[i].pre
                   /\ type = "position" =>
                          \A i \in 1 .. Len(anchors) :
                              /\ anchors'[i].pre = anchors[i].pre
                              /\ anchors'[i].post = anchors[i].post]_vars

\* C30 happens: a step of a control drag without the modifier has moved the
\* pre control of an anchor between two others off its default while its
\* post control is where it was
C30_Witness ==
    /\ last.op = "move" /\ ~last.err /\ ~last.meta
    /\ last.kind = "pre"
    /\ last.delta # NoVec
    /\ InRange(anchors, last.index) /\ InRange(anchors, last.index + 1)
    /\ Has(At(anchors, last.index).pre)
    /\ Get(At(anchors, last.index).pre) # DefaultControl
    /\ At(anchors, last.index).post = Some(DefaultControl)

====
